---------------------------- MODULE Spec2Model ----------------------------
(***************************************************************************)
(* Model of custom_components/owie/sensor.py: the OwieData poller and its  *)
(* cache, the payload sanitizer, and the three sensor entities that read   *)
(* the cache (battery level, charging, connectivity).                      *)
(*                                                                         *)
(* Representation.  A Python str that the code slices or parses is a       *)
(* sequence of one-character strings.  The uptime is only ever compared    *)
(* for equality, so it is an atom.  A float is kept in tenths (an          *)
(* integer), so -3.2 is -32 and the ladder of charge_speed, written in     *)
(* amps in the source, is written here in tenths of an amp.  Python None   *)
(* is the empty sequence and a present value v is <<v>>.                   *)
(***************************************************************************)
EXTENDS Integers, Sequences, FiniteSets, TLC

VARIABLES
    info,                \* OwieData.info, the cached LatestInfo
    max_missed_packets,  \* config[CONF_MAX_MISSED_PACKETS], given to both binary sensors
    conn_old_uptime,     \* OwieConnectivitySensor._old_uptime
    conn_missed_packets, \* OwieConnectivitySensor._missed_packets
    chg_old_uptime,      \* OwieChargingSensor._old_uptime
    chg_missed_packets,  \* OwieChargingSensor._missed_packets
    chg_connected,       \* OwieChargingSensor._connected
    current_current,     \* OwieChargingSensor.current_current (tenths of an amp)
    bat_state,           \* OwieBatterySensor._state
    bat_last_state,      \* OwieBatterySensor._last_state (None or <<r>>)
    attached,            \* whether async_added_to_hass has run for the battery sensor
    lastOp,              \* the operation the last step performed
    lastFetch,           \* the fetch result the last update() received
    retBool,             \* value returned by the last is_on
    retInt,              \* value returned by the last OwieBatterySensor.state
    raised,              \* exception the last operation let escape, or "none"
    jobs,                \* per entity, the data.update job its async_update has in the executor
    chg_pc,              \* where a stepwise OwieChargingSensor.is_on stands
    chg_seen,            \* the cache objects the lookups of that read dereferenced
    pure_in,             \* argument handed to a pure function
    pure_out             \* what the pure function returned for it

vars == << info, max_missed_packets, conn_old_uptime, conn_missed_packets,
           chg_old_uptime, chg_missed_packets, chg_connected, current_current,
           bat_state, bat_last_state, attached, lastOp, lastFetch, retBool,
           retInt, raised, jobs, chg_pc, chg_seen, pure_in, pure_out >>

(***************************************************************************)
(* Bounds of the model.                                                    *)
(***************************************************************************)
\* largest max_missed_packets the configuration is given
MaxMissed == 3
MaxAmpsTenths == 80
MaxSanitizeCalls == 2
\* how far below zero the configured max_missed_packets may go
NegMissed == 1

(***************************************************************************)
(* Python str helpers.                                                     *)
(***************************************************************************)
None == << >>

Digits == {"0", "1", "2", "3", "4", "5", "6", "7", "8", "9"}

DigitVal(c) ==
    CASE c = "0" -> 0 [] c = "1" -> 1 [] c = "2" -> 2 [] c = "3" -> 3
      [] c = "4" -> 4 [] c = "5" -> 5 [] c = "6" -> 6 [] c = "7" -> 7
      [] c = "8" -> 8 [] c = "9" -> 9

RECURSIVE lstrip(_, _)
\* str.lstrip(chars): drop leading characters that belong to chars
lstrip(s, chars) ==
    IF s # << >> /\ Head(s) \in chars THEN lstrip(Tail(s), chars) ELSE s

RECURSIVE rstrip(_, _)
\* str.rstrip(chars): drop trailing characters that belong to chars
rstrip(s, chars) ==
    IF s # << >> /\ s[Len(s)] \in chars
    THEN rstrip(SubSeq(s, 1, Len(s) - 1), chars)
    ELSE s

\* str.strip(chars): chars is a SET of characters, not a suffix
strip(s, chars) == rstrip(lstrip(s, chars), chars)

RECURSIVE DigitsVal(_)
DigitsVal(s) ==
    IF s = << >> THEN 0
    ELSE 10 * DigitsVal(SubSeq(s, 1, Len(s) - 1)) + DigitVal(s[Len(s)])

IsDigits(s) == s # << >> /\ \A i \in 1..Len(s) : s[i] \in Digits

\* sign and magnitude of a numeric literal, after the blanks int()/float() ignore
Unsigned(s) ==
    LET t == strip(s, {" "})
    IN  IF t # << >> /\ t[1] \in {"-", "+"} THEN Tail(t) ELSE t

IsNegative(s) ==
    LET t == strip(s, {" "}) IN t # << >> /\ t[1] = "-"

\* int(s): [ok, val]; ok = FALSE stands for ValueError
int(s) ==
    LET body == Unsigned(s)
    IN  IF IsDigits(body)
        THEN [ok |-> TRUE,
              val |-> IF IsNegative(s) THEN 0 - DigitsVal(body) ELSE DigitsVal(body)]
        ELSE [ok |-> FALSE, val |-> 0]

\* position of the first "." of s, or 0
DotAt(s) ==
    IF \E i \in 1..Len(s) : s[i] = "."
    THEN CHOOSE i \in 1..Len(s) : s[i] = "." /\ \A j \in 1..(i - 1) : s[j] # "."
    ELSE 0

\* float(s) in tenths: [ok, val]; ok = FALSE stands for ValueError.  Digits
\* after the first decimal are below the resolution of the model.
float(s) ==
    LET body == Unsigned(s)
        d    == DotAt(body)
        ip   == IF d = 0 THEN body ELSE SubSeq(body, 1, d - 1)
        fp   == IF d = 0 THEN << >> ELSE SubSeq(body, d + 1, Len(body))
        wellFormed ==
            /\ ip # << >> \/ fp # << >>
            /\ \A i \in 1..Len(ip) : ip[i] \in Digits
            /\ \A i \in 1..Len(fp) : fp[i] \in Digits
        mag  == 10 * DigitsVal(ip) + (IF fp = << >> THEN 0 ELSE DigitVal(fp[1]))
    IN  IF wellFormed
        THEN [ok |-> TRUE, val |-> IF IsNegative(s) THEN 0 - mag ELSE mag]
        ELSE [ok |-> FALSE, val |-> 0]

(***************************************************************************)
(* Payloads.  A JSON body is a function from field names to values.  The   *)
(* six sanitized fields hold strings; UPTIME holds an atom; a table field  *)
(* holds [kind, rows, map]: kind "html" is a markup string whose <tr>/<td> *)
(* structure is rows (a sequence of rows of cell texts), kind "blank" is   *)
(* the empty string, kind "map" is a dict keyed Cell 1.. / Temp 1.. whose  *)
(* values, in key order, are map.                                          *)
(***************************************************************************)
\* requests.codes.bad
codes_bad == 400
\* the default of CONF_MAX_MISSED_PACKETS in PLATFORM_SCHEMA
DEFAULT_MAX_MISSED_PACKETS == 3
\* range(1, 16): the keys Cell 1 .. Cell 15
CellKeys == 15
\* range(1, 6): the keys Temp 1 .. Temp 5
TempKeys == 5

_san_properties ==
    << "TOTAL_VOLTAGE", "CURRENT_AMPS", "BMS_SOC", "OVERRIDDEN_SOC",
       "USED_CHARGE_MAH", "REGENERATED_CHARGE_MAH" >>

\* the character sets handed to str.strip on line 93
StripV    == {"v"}
StripAmps == {" ", "A", "m", "p", "s"}
StripPct  == {"%"}
StripMah  == {" ", "m", "A", "h"}

\* .strip('v').strip(' Amps').strip('%').strip('%').strip(' mAh').strip(' mAh')
SanitizeValue(s) ==
    strip(strip(strip(strip(strip(strip(s, StripV), StripAmps), StripPct),
                      StripPct), StripMah), StripMah)

Html(rows) == [kind |-> "html", rows |-> rows, map |-> << >>]
Blank      == [kind |-> "blank", rows |-> << >>, map |-> << >>]
Mapping(m) == [kind |-> "map", rows |-> << >>, map |-> m]

\* [col.text.strip() for col in cols if col.text.strip()]
RowTexts(row) ==
    SelectSeq([i \in 1..Len(row) |-> strip(row[i], {" "})], LAMBDA t : t # << >>)

RECURSIVE FirstRowValues(_)
\* the loop over rows: the texts of the first row that has any, else []
FirstRowValues(rows) ==
    IF rows = << >> THEN << >>
    ELSE IF RowTexts(Head(rows)) # << >> THEN RowTexts(Head(rows))
    ELSE FirstRowValues(Tail(rows))

\* dict(zip(keys, values)) for n keys: surplus values dropped, no padding
ZipKeys(n, values) ==
    SubSeq(values, 1, IF Len(values) < n THEN Len(values) ELSE n)

\* truthiness of owie_json.get(field)
Truthy(json, field) ==
    /\ field \in DOMAIN json
    /\ \/ json[field].kind = "html"
       \/ json[field].kind = "map" /\ json[field].map # << >>

\* one table block of sanitize_response (lines 96-115 and 119-138)
ParseTable(json, field, n) ==
    IF ~Truthy(json, field) THEN [exc |-> "none", json |-> json]
    ELSE IF json[field].kind = "map"
    THEN \* BeautifulSoup is handed a dict, which it cannot decode
         [exc |-> "TypeError", json |-> json]
    ELSE [exc |-> "none",
          json |-> [json EXCEPT
                      ![field] = Mapping(ZipKeys(n, FirstRowValues(json[field].rows)))]]

RECURSIVE StripProps(_, _)
\* the for loop of lines 92-93, from the i-th property on
StripProps(json, i) ==
    IF i > Len(_san_properties) THEN [exc |-> "none", json |-> json]
    ELSE IF _san_properties[i] \notin DOMAIN json
    THEN [exc |-> "KeyError", json |-> json]
    ELSE StripProps([json EXCEPT ![_san_properties[i]] = SanitizeValue(@)], i + 1)

\* sanitize_response(owie_json): [exc, json]; exc # "none" means it raised
sanitize_response(owie_json) ==
    LET a == StripProps(owie_json, 1)
        b == ParseTable(a.json, "CELL_VOLTAGE_TABLE", CellKeys)
        c == ParseTable(b.json, "TEMPERATURE_TABLE", TempKeys)
    IN  IF a.exc # "none" THEN a
        ELSE IF b.exc # "none" THEN b
        ELSE c

(***************************************************************************)
(* Inputs: the bodies the device can answer with and the fetch results.    *)
(***************************************************************************)
Uptimes    == {"Offline", "10", "11"}
AmpsValues == { << "-", "3", ".", "2", " ", "A", "m", "p", "s" >>,
                << "0", ".", "5", " ", "A", "m", "p", "s" >> }
SocValues  == { << "-", "1", "%" >>, << "6", "7", "%" >>, << "4", "2", "%" >> }
\* what async_get_last_state() hands back: None, or a state whose text is r
RestoredValues == { None, << << "4", "2" >> >>, << << "0" >> >> }
Statuses   == {200, 400, 500}

CellRows == << << << " " >>, << >> >>,
               << << "4", ".", "1" >>, << " ", "4", ".", "0" >>, << " " >> >>,
               << << "3", ".", "9" >> >> >>
TempRows == << << << "2", "1" >>, << "2", "2" >>, << "2", "3" >>, << "2", "4" >>,
                  << "2", "5" >>, << "2", "6" >> >> >>

Payload(u, a, s) ==
    [ TOTAL_VOLTAGE          |-> << "5", "8", ".", "3", "v" >>,
      CURRENT_AMPS           |-> a,
      BMS_SOC                |-> << "6", "6", "%" >>,
      OVERRIDDEN_SOC         |-> s,
      USED_CHARGE_MAH        |-> << "1", "2", "0", " ", "m", "A", "h" >>,
      REGENERATED_CHARGE_MAH |-> << "3", "0", " ", "m", "A", "h" >>,
      UPTIME                 |-> u ]

WithTables(p) ==
    [ f \in DOMAIN p \cup {"CELL_VOLTAGE_TABLE", "TEMPERATURE_TABLE"} |->
        IF f = "CELL_VOLTAGE_TABLE" THEN Html(CellRows)
        ELSE IF f = "TEMPERATURE_TABLE" THEN Html(TempRows)
        ELSE p[f] ]

Without(p, field) == [ f \in DOMAIN p \ {field} |-> p[f] ]

SomeAmps == << "-", "3", ".", "2", " ", "A", "m", "p", "s" >>
SomeSoc  == << "6", "7", "%" >>

TrackerBodies == { Payload(u, a, SomeSoc) : u \in Uptimes, a \in AmpsValues }
BatteryBodies == { Payload("10", SomeAmps, s) : s \in SocValues }
OtherBodies ==
    { WithTables(Payload("11", SomeAmps, SomeSoc)),
      [WithTables(Payload("10", SomeAmps, SomeSoc)) EXCEPT !["CELL_VOLTAGE_TABLE"] = Blank],
      Without(Payload("11", SomeAmps, SomeSoc), "TOTAL_VOLTAGE"),
      Without(Payload("11", SomeAmps, SomeSoc), "REGENERATED_CHARGE_MAH"),
      Without(Payload("11", SomeAmps, SomeSoc), "UPTIME") }
Bodies == TrackerBodies \cup BatteryBodies \cup OtherBodies

NoFetch     == [kind |-> "none", status |-> 0, isJson |-> FALSE, body |-> << >>]
Unreachable == [kind |-> "Unreachable", status |-> 0, isJson |-> FALSE, body |-> << >>]
Response(st, b) == [kind |-> "Response", status |-> st, isJson |-> TRUE, body |-> b]
NotJson(st)     == [kind |-> "Response", status |-> st, isJson |-> FALSE, body |-> << >>]

Fetches ==
    {Unreachable} \cup { Response(st, b) : st \in Statuses, b \in Bodies }
                  \cup { NotJson(st) : st \in Statuses }
TrackerFetches == {Unreachable} \cup { Response(200, b) : b \in TrackerBodies }
BatteryFetches == {Unreachable} \cup { Response(200, b) : b \in BatteryBodies }
PlatformFetches ==
    { Unreachable,
      Response(200, Payload("10", SomeAmps, SomeSoc)),
      Response(200, Payload("11", SomeAmps, << "-", "1", "%" >>)) }

(***************************************************************************)
(* Construction: async_setup_platform builds one OwieData and the three    *)
(* sensors; vol.Coerce(int) lets any integer through as max_missed_packets.*)
(***************************************************************************)
MaxMissedValues == (0 - NegMissed)..MaxMissed

\* the three entities async_setup_platform adds; each has its own async_update
Entities == {"battery", "charging", "connectivity"}

\* no data.update of the entity is in the executor
IdleJob == [pc |-> "idle", fetch |-> NoFetch, json |-> << >>]

\* OwieData.__init__
InitialInfo ==
    [ TOTAL_VOLTAGE          |-> << "0" >>,
      CURRENT_AMPS           |-> << "0" >>,
      BMS_SOC                |-> << "0" >>,
      OVERRIDDEN_SOC         |-> << "-", "1" >>,
      USED_CHARGE_MAH        |-> << "0" >>,
      REGENERATED_CHARGE_MAH |-> << "0" >>,
      UPTIME                 |-> "Offline",
      CELL_VOLTAGE_TABLE     |-> Mapping([i \in 1..CellKeys |-> << "0" >>]),
      TEMPERATURE_TABLE      |-> Mapping([i \in 1..TempKeys |-> << "0" >>]) ]

InitSensors ==
    /\ info = InitialInfo
    /\ max_missed_packets \in MaxMissedValues
    /\ conn_old_uptime = "Offline"
    /\ conn_missed_packets = 0
    /\ chg_old_uptime = "Offline"
    /\ chg_missed_packets = 0
    /\ chg_connected = FALSE
    /\ current_current = 10
    /\ bat_state = -1
    /\ bat_last_state = None
    /\ attached = FALSE
    /\ lastOp = "init"
    /\ lastFetch = NoFetch
    /\ retBool = FALSE
    /\ retInt = 0
    /\ raised = "none"
    /\ jobs = [e \in Entities |-> IdleJob]
    /\ chg_pc = "idle"
    /\ chg_seen = << >>

Init ==
    /\ InitSensors
    /\ pure_in = << >>
    /\ pure_out = << >>

connVars == << conn_old_uptime, conn_missed_packets >>
concVars == << jobs, chg_pc, chg_seen >>
pureVars == << pure_in, pure_out >>
chgVars  == << chg_old_uptime, chg_missed_packets, chg_connected, current_current >>
batVars  == << bat_state, bat_last_state, attached >>

(***************************************************************************)
(* OwieData.update                                                         *)
(***************************************************************************)
\* mutant: an unreachable device puts the construction defaults back in the cache
UpdateOutcome_ResetOnUnreachable(fetch, old) ==
    IF fetch.kind = "Unreachable"
    THEN [info |-> InitialInfo, raised |-> "none"]
    ELSE IF fetch.status = codes_bad
    THEN [info |-> old, raised |-> "none"]
    ELSE IF ~fetch.isJson
    THEN [info |-> old, raised |-> "none"]
    ELSE LET r == sanitize_response(fetch.body)
         IN  IF r.exc # "none"
             THEN [info |-> old, raised |-> r.exc]
             ELSE [info |-> r.json, raised |-> "none"]

\* mutant: the payload being sanitized is stored even when sanitizing it fails
UpdateOutcome_KeepPartial(fetch, old) ==
    IF fetch.kind = "Unreachable"
    THEN [info |-> old, raised |-> "none"]
    ELSE IF fetch.status = codes_bad
    THEN [info |-> old, raised |-> "none"]
    ELSE IF ~fetch.isJson
    THEN [info |-> old, raised |-> "none"]
    ELSE LET r == sanitize_response(fetch.body)
         IN  [info |-> r.json, raised |-> r.exc]

\* mutant: the sanitized payload is merged into the cache (dict.update)
UpdateOutcome_Merge(fetch, old) ==
    IF fetch.kind = "Unreachable"
    THEN [info |-> old, raised |-> "none"]
    ELSE IF fetch.status = codes_bad
    THEN [info |-> old, raised |-> "none"]
    ELSE IF ~fetch.isJson
    THEN [info |-> old, raised |-> "none"]
    ELSE LET r == sanitize_response(fetch.body)
         IN  IF r.exc # "none"
             THEN [info |-> old, raised |-> r.exc]
             ELSE [info |-> [k \in DOMAIN old \cup DOMAIN r.json |->
                                IF k \in DOMAIN r.json THEN r.json[k] ELSE old[k]],
                   raised |-> "none"]

\* what update() does with a fetch result: [info, raised]
UpdateOutcome(fetch, old) ==
    IF fetch.kind = "Unreachable"
    THEN \* requests.ConnectionError / Timeout are OSError: logged
         [info |-> old, raised |-> "none"]
    ELSE IF fetch.status = codes_bad
    THEN \* logged, body not looked at
         [info |-> old, raised |-> "none"]
    ELSE IF ~fetch.isJson
    THEN \* response.json() raises requests' JSONDecodeError, a
         \* RequestException and so an OSError: logged
         [info |-> old, raised |-> "none"]
    ELSE LET r == sanitize_response(fetch.body)
         IN  IF r.exc # "none"
             THEN \* not an OSError: escapes before self.info is assigned
                  [info |-> old, raised |-> r.exc]
             ELSE [info |-> r.json, raised |-> "none"]

update(fetch) ==
    /\ info' = UpdateOutcome(fetch, info).info
    /\ raised' = UpdateOutcome(fetch, info).raised
    /\ lastOp' = "update"
    /\ UNCHANGED << concVars, pureVars >>
    /\ lastFetch' = fetch
    /\ UNCHANGED << max_missed_packets, connVars, chgVars, batVars, retBool, retInt >>

(***************************************************************************)
(* OwieConnectivitySensor                                                  *)
(***************************************************************************)
\* mutant: the stall branch tests the count after incrementing it
ConnectivityDecision_CheckAfterIncrement(new_uptime, old_uptime, missed, max_missed) ==
    IF new_uptime # "Offline" /\ new_uptime = old_uptime
    THEN IF missed + 1 < max_missed
         THEN [old_uptime |-> old_uptime, missed_packets |-> missed + 1, ret |-> TRUE]
         ELSE [old_uptime |-> old_uptime, missed_packets |-> missed, ret |-> FALSE]
    ELSE IF new_uptime # "Offline" /\ new_uptime # old_uptime
    THEN [old_uptime |-> new_uptime, missed_packets |-> 0, ret |-> TRUE]
    ELSE [old_uptime |-> old_uptime, missed_packets |-> 0, ret |-> FALSE]

\* mutant: the Offline branch forgets to reset the missed count
ConnectivityDecision_OfflineKeepsCount(new_uptime, old_uptime, missed, max_missed) ==
    IF new_uptime # "Offline" /\ new_uptime = old_uptime
    THEN IF missed < max_missed
         THEN [old_uptime |-> old_uptime, missed_packets |-> missed + 1, ret |-> TRUE]
         ELSE [old_uptime |-> old_uptime, missed_packets |-> missed, ret |-> FALSE]
    ELSE IF new_uptime # "Offline" /\ new_uptime # old_uptime
    THEN [old_uptime |-> new_uptime, missed_packets |-> 0, ret |-> TRUE]
    ELSE [old_uptime |-> old_uptime, missed_packets |-> missed, ret |-> FALSE]

\* body of OwieConnectivitySensor.is_on after _new_uptime is read:
\* [old_uptime, missed_packets, ret]
\* mutant: a stalled uptime keeps counting as connected once the count is used up
ConnectivityDecision_NeverExpires(new_uptime, old_uptime, missed, max_missed) ==
    IF new_uptime # "Offline" /\ new_uptime = old_uptime
    THEN IF missed < max_missed
         THEN [old_uptime |-> old_uptime, missed_packets |-> missed + 1, ret |-> TRUE]
         ELSE [old_uptime |-> old_uptime, missed_packets |-> missed, ret |-> TRUE]
    ELSE IF new_uptime # "Offline" /\ new_uptime # old_uptime
    THEN [old_uptime |-> new_uptime, missed_packets |-> 0, ret |-> TRUE]
    ELSE [old_uptime |-> old_uptime, missed_packets |-> 0, ret |-> FALSE]

ConnectivityDecision(new_uptime, old_uptime, missed, max_missed) ==
    IF new_uptime # "Offline" /\ new_uptime = old_uptime
    THEN IF missed < max_missed
         THEN [old_uptime |-> old_uptime, missed_packets |-> missed + 1, ret |-> TRUE]
         ELSE [old_uptime |-> old_uptime, missed_packets |-> missed, ret |-> FALSE]
    ELSE IF new_uptime # "Offline" /\ new_uptime # old_uptime
    THEN [old_uptime |-> new_uptime, missed_packets |-> 0, ret |-> TRUE]
    ELSE [old_uptime |-> old_uptime, missed_packets |-> 0, ret |-> FALSE]

\* _new_uptime is assigned before it is consulted in every read, so it carries
\* nothing from one read to the next and is not kept as a variable.
OwieConnectivitySensor_is_on ==
    /\ lastOp' = "conn_is_on"
    /\ UNCHANGED << concVars, pureVars >>
    /\ IF "UPTIME" \notin DOMAIN info
       THEN /\ raised' = "KeyError"
            /\ UNCHANGED << connVars, retBool >>
       ELSE LET d == ConnectivityDecision(info["UPTIME"], conn_old_uptime,
                                          conn_missed_packets, max_missed_packets)
            IN  /\ conn_old_uptime' = d.old_uptime
                /\ conn_missed_packets' = d.missed_packets
                /\ retBool' = d.ret
                /\ raised' = "none"
    /\ UNCHANGED << info, max_missed_packets, chgVars, batVars, lastFetch, retInt >>

(***************************************************************************)
(* OwieChargingSensor                                                      *)
(***************************************************************************)
\* mutant: the advancing branch forgets to reset the missed count
ChargingConnectivity_AdvanceKeepsCount(new_uptime, old_uptime, missed, max_missed) ==
    IF new_uptime # "Offline" /\ new_uptime = old_uptime
    THEN IF missed < max_missed
         THEN [old_uptime |-> old_uptime, missed_packets |-> missed + 1, connected |-> TRUE]
         ELSE [old_uptime |-> old_uptime, missed_packets |-> missed, connected |-> FALSE]
    ELSE IF new_uptime # "Offline" /\ new_uptime # old_uptime
    THEN [old_uptime |-> new_uptime, missed_packets |-> missed, connected |-> TRUE]
    ELSE [old_uptime |-> old_uptime, missed_packets |-> 0, connected |-> FALSE]

\* mutant: the charging sensor tolerates one stalled read more
ChargingConnectivity_StallInclusive(new_uptime, old_uptime, missed, max_missed) ==
    IF new_uptime # "Offline" /\ new_uptime = old_uptime
    THEN IF missed <= max_missed
         THEN [old_uptime |-> old_uptime, missed_packets |-> missed + 1, connected |-> TRUE]
         ELSE [old_uptime |-> old_uptime, missed_packets |-> missed, connected |-> FALSE]
    ELSE IF new_uptime # "Offline" /\ new_uptime # old_uptime
    THEN [old_uptime |-> new_uptime, missed_packets |-> 0, connected |-> TRUE]
    ELSE [old_uptime |-> old_uptime, missed_packets |-> 0, connected |-> FALSE]

\* lines 304-325 of OwieChargingSensor.is_on: [old_uptime, missed_packets, connected]
ChargingConnectivity(new_uptime, old_uptime, missed, max_missed) ==
    IF new_uptime # "Offline" /\ new_uptime = old_uptime
    THEN IF missed < max_missed
         THEN [old_uptime |-> old_uptime, missed_packets |-> missed + 1, connected |-> TRUE]
         ELSE [old_uptime |-> old_uptime, missed_packets |-> missed, connected |-> FALSE]
    ELSE IF new_uptime # "Offline" /\ new_uptime # old_uptime
    THEN [old_uptime |-> new_uptime, missed_packets |-> 0, connected |-> TRUE]
    ELSE [old_uptime |-> old_uptime, missed_packets |-> 0, connected |-> FALSE]

\* lines 327-335: [ok, current_current, ret]; ok = FALSE is float() raising
ChargingCurrent(connected, amps_text, current) ==
    IF connected
    THEN LET f == float(amps_text)
         IN  IF f.ok
             THEN [ok |-> TRUE, current_current |-> f.val, ret |-> ~(f.val >= 0)]
             ELSE [ok |-> FALSE, current_current |-> current, ret |-> FALSE]
    ELSE [ok |-> TRUE, current_current |-> 0, ret |-> FALSE]

OwieChargingSensor_is_on ==
    /\ lastOp' = "chg_is_on"
    /\ UNCHANGED << concVars, pureVars >>
    /\ IF "UPTIME" \notin DOMAIN info
       THEN /\ raised' = "KeyError"
            /\ UNCHANGED << chgVars, retBool >>
       ELSE LET d == ChargingConnectivity(info["UPTIME"], chg_old_uptime,
                                          chg_missed_packets, max_missed_packets)
                c == ChargingCurrent(d.connected, info["CURRENT_AMPS"], current_current)
            IN  /\ chg_old_uptime' = d.old_uptime
                /\ chg_missed_packets' = d.missed_packets
                /\ chg_connected' = d.connected
                /\ current_current' = c.current_current
                /\ IF c.ok
                   THEN retBool' = c.ret /\ raised' = "none"
                   ELSE raised' = "ValueError" /\ UNCHANGED retBool
    /\ UNCHANGED << info, max_missed_packets, connVars, batVars, lastFetch, retInt >>

\* mutant: the band boundaries belong to the less negative band
charge_speed_ClosedAbove(amps) ==
    IF amps >= 0 THEN "Not Charging"
    ELSE IF amps >= -10 THEN "Balance Charging"
    ELSE IF amps >= -20 THEN "Pint Charger"
    ELSE IF amps >= -40 THEN "XR|Pint Ultracharger"
    ELSE IF amps >= -60 THEN "XR Hypercharger"
    ELSE "Unknown Charger"

\* charge_speed(amps), amps in tenths
charge_speed(amps) ==
    IF amps >= 0 THEN "Not Charging"
    ELSE IF amps > -10 THEN "Balance Charging"
    ELSE IF amps > -20 THEN "Pint Charger"
    ELSE IF amps > -40 THEN "XR|Pint Ultracharger"
    ELSE IF amps > -60 THEN "XR Hypercharger"
    ELSE "Unknown Charger"

\* charge_speed_icon(amps), amps in tenths
charge_speed_icon(amps) ==
    IF amps >= 0 THEN "mdi:power-plug-off-outline"
    ELSE IF amps > -10 THEN "mdi:scale-balance"
    ELSE IF amps > -20 THEN "mdi:speedometer-slow"
    ELSE IF amps > -40 THEN "mdi:speedometer-medium"
    ELSE IF amps > -60 THEN "mdi:speedometer"
    ELSE "mdi:flash-alert-outline"

\* OwieChargingSensor.extra_state_attributes: the two attributes the sensor
\* publishes next to its state
ChargingAttrChargeSpeed == charge_speed(current_current)
ChargingAttrCurrentAmps == float(info["CURRENT_AMPS"]).val

\* OwieChargingSensor.icon
ChargingIcon == charge_speed_icon(current_current)

(***************************************************************************)
(* OwieBatterySensor                                                       *)
(***************************************************************************)
\* async_added_to_hass: [ok, last_state]; ok = FALSE is int() raising
RestoreLastState(restored, last_state) ==
    IF restored # None
    THEN LET r == int(restored[1])
         IN  IF r.ok THEN [ok |-> TRUE, last_state |-> << r.val >>]
             ELSE [ok |-> FALSE, last_state |-> last_state]
    ELSE [ok |-> TRUE, last_state |-> last_state]

OwieBatterySensor_async_added_to_hass(restored) ==
    /\ ~attached
    /\ attached' = TRUE
    /\ lastOp' = "attach"
    /\ UNCHANGED << concVars, pureVars >>
    /\ LET r == RestoreLastState(restored, bat_last_state)
       IN  /\ bat_last_state' = r.last_state
           /\ raised' = IF r.ok THEN "none" ELSE "ValueError"
    /\ UNCHANGED << info, max_missed_packets, connVars, chgVars, bat_state,
                    lastFetch, retBool, retInt >>

\* mutant: no branch holds the last value while the device reports the sentinel
BatteryState_NoHold(override_value, state, last_state) ==
    IF last_state # None /\ state = -1
    THEN [state |-> last_state[1], last_state |-> None, ret |-> last_state[1]]
    ELSE [state |-> override_value, last_state |-> last_state, ret |-> override_value]

\* mutant: the restore branch forgets to discard the pending value
BatteryState_RestoreSticky(override_value, state, last_state) ==
    IF last_state # None /\ state = -1
    THEN [state |-> last_state[1], last_state |-> last_state, ret |-> last_state[1]]
    ELSE IF state # -1 /\ override_value = -1
    THEN [state |-> state, last_state |-> last_state, ret |-> state]
    ELSE IF override_value # -1
    THEN [state |-> override_value, last_state |-> last_state, ret |-> override_value]
    ELSE [state |-> 0, last_state |-> last_state, ret |-> 0]

\* mutant: a concrete live value is preferred to the pending restored one
BatteryState_LiveFirst(override_value, state, last_state) ==
    IF override_value # -1
    THEN [state |-> override_value, last_state |-> None, ret |-> override_value]
    ELSE IF last_state # None /\ state = -1
    THEN [state |-> last_state[1], last_state |-> None, ret |-> last_state[1]]
    ELSE IF state # -1
    THEN [state |-> state, last_state |-> last_state, ret |-> state]
    ELSE [state |-> 0, last_state |-> last_state, ret |-> 0]

\* body of OwieBatterySensor.state after override_value is parsed:
\* [state, last_state, ret]
BatteryState(override_value, state, last_state) ==
    IF last_state # None /\ state = -1
    THEN [state |-> last_state[1], last_state |-> None, ret |-> last_state[1]]
    ELSE IF state # -1 /\ override_value = -1
    THEN [state |-> state, last_state |-> last_state, ret |-> state]
    ELSE IF override_value # -1
    THEN [state |-> override_value, last_state |-> last_state, ret |-> override_value]
    ELSE [state |-> 0, last_state |-> last_state, ret |-> 0]

\* the host reads the state only of an entity it has added
OwieBatterySensor_state ==
    /\ attached
    /\ lastOp' = "bat_state"
    /\ UNCHANGED << concVars, pureVars >>
    /\ LET o == int(info["OVERRIDDEN_SOC"])
       IN  IF ~o.ok
           THEN /\ raised' = "ValueError"
                /\ UNCHANGED << bat_state, bat_last_state, retInt >>
           ELSE LET b == BatteryState(o.val, bat_state, bat_last_state)
                IN  /\ bat_state' = b.state
                    /\ bat_last_state' = b.last_state
                    /\ retInt' = b.ret
                    /\ raised' = "none"
    /\ UNCHANGED << info, max_missed_packets, connVars, chgVars, attached,
                    lastFetch, retBool >>

(***************************************************************************)
(* Specifications                                                          *)
(***************************************************************************)
\* the two binary sensors reading a cache that successful polls replace
NextTracker ==
    \/ \E f \in TrackerFetches : update(f)
    \/ OwieConnectivitySensor_is_on
    \/ OwieChargingSensor_is_on

SpecTracker == Init /\ [][NextTracker]_vars

\* the battery sensor: attach, polls, reads
NextBattery ==
    \/ \E r \in RestoredValues : OwieBatterySensor_async_added_to_hass(r)
    \/ \E f \in BatteryFetches : update(f)
    \/ OwieBatterySensor_state

SpecBattery == Init /\ [][NextBattery]_vars

\* the poller alone, over every fetch result
NextPoll == \E f \in Fetches : update(f)

SpecPoll == Init /\ [][NextPoll]_vars

\* the whole platform: one cache, the three sensors reading it
Next ==
    \/ \E f \in PlatformFetches : update(f)
    \/ OwieConnectivitySensor_is_on
    \/ OwieChargingSensor_is_on
    \/ \E r \in RestoredValues : OwieBatterySensor_async_added_to_hass(r)
    \/ OwieBatterySensor_state

Spec == Init /\ [][Next]_vars

(***************************************************************************)
(* OwieData.update as the executor runs it, statement by statement, for    *)
(* the three entities that each submit it from their async_update, next to *)
(* OwieChargingSensor.is_on making its two cache lookups on the event loop. *)
(***************************************************************************)
ConcFetches ==
    { Unreachable,
      Response(200, Payload("10", << "-", "3", ".", "2", " ", "A", "m", "p", "s" >>, SomeSoc)),
      Response(200, Payload("11", << "0", ".", "5", " ", "A", "m", "p", "s" >>, SomeSoc)),
      Response(200, Without(Payload("11", SomeAmps, SomeSoc), "REGENERATED_CHARGE_MAH")) }

\* mutant: the parsed payload is bound to self.info first and sanitized in place
InfoAfterStep_InPlace(step, json, old) ==
    IF step \in {"parsed", "sanitized", "assign"} THEN json ELSE old

\* self.info after a statement of update(): only the assignment of line 447,
\* which runs once sanitize_response has returned, rebinds it
InfoAfterStep(step, json, old) ==
    IF step = "assign" THEN json ELSE old

\* async_update of entity e: data.update is handed to the executor and
\* requests.get is issued (lines 441-442)
UpdateBegin(e) ==
    /\ jobs[e].pc = "idle"
    /\ jobs' = [jobs EXCEPT ![e] = [pc |-> "get", fetch |-> NoFetch, json |-> << >>]]
    /\ lastOp' = "update_begin"
    /\ UNCHANGED << info, max_missed_packets, connVars, chgVars, batVars, lastFetch,
                    retBool, retInt, raised, chg_pc, chg_seen, pureVars >>

\* the request of e's job ends: exception or error status logged (lines 443-444,
\* 449-450), or response.json() parsed into a dict of the job's own (line 447);
\* the job record keeps the response, one per job
UpdateResponse(e, f) ==
    /\ jobs[e].pc = "get"
    /\ lastOp' = "update_response"
    /\ raised' = "none"
    /\ IF f.kind = "Unreachable" \/ f.status = codes_bad \/ ~f.isJson
       THEN /\ jobs' = [jobs EXCEPT ![e] = IdleJob]
            /\ UNCHANGED info
       ELSE /\ jobs' = [jobs EXCEPT ![e] = [pc |-> "parsed", fetch |-> f, json |-> f.body]]
            /\ info' = InfoAfterStep("parsed", f.body, info)
    /\ UNCHANGED << max_missed_packets, connVars, chgVars, batVars, lastFetch,
                    retBool, retInt, chg_pc, chg_seen, pureVars >>

\* sanitize_response runs on the job's dict (line 447, the call)
UpdateSanitize(e) ==
    /\ jobs[e].pc = "parsed"
    /\ lastOp' = "update_sanitize"
    /\ LET r == sanitize_response(jobs[e].json)
       IN  IF r.exc # "none"
           THEN /\ jobs' = [jobs EXCEPT ![e] = IdleJob]
                /\ raised' = r.exc
                /\ info' = InfoAfterStep("raised", r.json, info)
           ELSE /\ jobs' = [jobs EXCEPT ![e] = [@ EXCEPT !.pc = "sanitized", !.json = r.json]]
                /\ raised' = "none"
                /\ info' = InfoAfterStep("sanitized", r.json, info)
    /\ UNCHANGED << max_missed_packets, connVars, chgVars, batVars, lastFetch,
                    retBool, retInt, chg_pc, chg_seen, pureVars >>

\* self.info = <the sanitized dict> (line 447, the store)
UpdateAssign(e) ==
    /\ jobs[e].pc = "sanitized"
    /\ lastOp' = "update_assign"
    /\ info' = InfoAfterStep("assign", jobs[e].json, info)
    /\ jobs' = [jobs EXCEPT ![e] = IdleJob]
    /\ raised' = "none"
    /\ UNCHANGED << max_missed_packets, connVars, chgVars, batVars, lastFetch,
                    retBool, retInt, chg_pc, chg_seen, pureVars >>

\* OwieChargingSensor.is_on up to line 325: self.data.info['UPTIME'] is looked
\* up and the tracker decides; a disconnected sensor finishes at once (334-335)
ChargingLookupUptime ==
    /\ chg_pc = "idle"
    /\ "UPTIME" \in DOMAIN info
    /\ lastOp' = "chg_lookup_uptime"
    /\ chg_seen' = << info >>
    /\ LET d == ChargingConnectivity(info["UPTIME"], chg_old_uptime,
                                     chg_missed_packets, max_missed_packets)
       IN  /\ chg_old_uptime' = d.old_uptime
           /\ chg_missed_packets' = d.missed_packets
           /\ chg_connected' = d.connected
           /\ IF d.connected
              THEN chg_pc' = "amps" /\ UNCHANGED << current_current, retBool >>
              ELSE chg_pc' = "idle" /\ current_current' = 0 /\ retBool' = FALSE
    /\ raised' = "none"
    /\ UNCHANGED << info, max_missed_packets, connVars, batVars, lastFetch, retInt,
                    jobs, pureVars >>

\* lines 327-332: self.data.info['CURRENT_AMPS'] is looked up in whatever
\* self.data.info is bound to by now
ChargingLookupAmps ==
    /\ chg_pc = "amps"
    /\ lastOp' = "chg_lookup_amps"
    /\ chg_pc' = "idle"
    /\ chg_seen' = Append(chg_seen, info)
    /\ LET c == ChargingCurrent(TRUE, info["CURRENT_AMPS"], current_current)
       IN  /\ current_current' = c.current_current
           /\ IF c.ok
              THEN retBool' = c.ret /\ raised' = "none"
              ELSE raised' = "ValueError" /\ UNCHANGED retBool
    /\ UNCHANGED << info, max_missed_packets, connVars, chg_old_uptime,
                    chg_missed_packets, chg_connected, batVars, lastFetch, retInt,
                    jobs, pureVars >>

NextConc ==
    \/ \E e \in Entities : UpdateBegin(e)
    \/ \E e \in Entities, f \in ConcFetches : UpdateResponse(e, f)
    \/ \E e \in Entities : UpdateSanitize(e)
    \/ \E e \in Entities : UpdateAssign(e)
    \/ ChargingLookupUptime
    \/ ChargingLookupAmps

\* the platform as configured without max_missed_packets
InitConc ==
    /\ Init
    /\ max_missed_packets = DEFAULT_MAX_MISSED_PACKETS

SpecConc == InitConc /\ [][NextConc]_vars

\* the connectivity sensor alone; the host writes the entity's state after
\* every async_update, so a read of is_on that is due is eventually made
NextOutage ==
    \/ \E f \in TrackerFetches : update(f)
    \/ OwieConnectivitySensor_is_on

SpecOutage ==
    Init /\ [][NextOutage]_vars /\ WF_vars(OwieConnectivitySensor_is_on)

\* both trackers read in step: after each poll cycle the connectivity sensor's
\* is_on and the charging sensor's is_on are each evaluated once against the
\* same cache; retBool is what the connectivity sensor returned
ReadBoth ==
    /\ lastOp' = "read_both"
    /\ IF "UPTIME" \notin DOMAIN info
       THEN /\ raised' = "KeyError"
            /\ UNCHANGED << connVars, chgVars, retBool >>
       ELSE LET d == ConnectivityDecision(info["UPTIME"], conn_old_uptime,
                                          conn_missed_packets, max_missed_packets)
                e == ChargingConnectivity(info["UPTIME"], chg_old_uptime,
                                          chg_missed_packets, max_missed_packets)
                c == ChargingCurrent(e.connected, info["CURRENT_AMPS"], current_current)
            IN  /\ conn_old_uptime' = d.old_uptime
                /\ conn_missed_packets' = d.missed_packets
                /\ retBool' = d.ret
                /\ chg_old_uptime' = e.old_uptime
                /\ chg_missed_packets' = e.missed_packets
                /\ chg_connected' = e.connected
                /\ current_current' = c.current_current
                /\ raised' = IF c.ok THEN "none" ELSE "ValueError"
    /\ UNCHANGED << info, max_missed_packets, batVars, lastFetch, retInt,
                    concVars, pureVars >>

NextLockstep ==
    \/ \E f \in TrackerFetches : update(f)
    \/ ReadBoth

SpecLockstep == Init /\ [][NextLockstep]_vars

\* the classifiers on their own: any amperage within the bound, in tenths
AmpsRange == (0 - MaxAmpsTenths)..MaxAmpsTenths

InitClassify ==
    /\ InitSensors
    /\ pure_in \in AmpsRange
    /\ pure_out = << >>

\* charge_speed and charge_speed_icon called with the same amperage, as
\* extra_state_attributes and icon call them with current_current
Classify ==
    /\ pure_out = << >>
    /\ pure_out' = [speed |-> charge_speed(pure_in), icon |-> charge_speed_icon(pure_in)]
    /\ lastOp' = "classify"
    /\ UNCHANGED << info, max_missed_packets, connVars, chgVars, batVars, lastFetch,
                    retBool, retInt, raised, concVars, pure_in >>

NextClassify == Classify

SpecClassify == InitClassify /\ [][NextClassify]_vars

\* the sanitizer on its own: device payloads with and without the two tables
SanitizeInputs ==
    { Payload(u, a, s) : u \in Uptimes, a \in AmpsValues, s \in SocValues }
        \cup { WithTables(Payload(u, a, s)) : u \in Uptimes, a \in AmpsValues, s \in SocValues }
        \cup OtherBodies

InitSanitize ==
    /\ InitSensors
    /\ pure_in \in SanitizeInputs
    /\ pure_out = << >>

\* sanitize_response called on the payload, then on what it returned;
\* pure_out lists the outcomes of the calls made so far
Sanitize ==
    /\ Len(pure_out) < MaxSanitizeCalls
    /\ pure_out # << >> => pure_out[Len(pure_out)].exc = "none"
    /\ pure_out' = Append(pure_out,
                          sanitize_response(IF pure_out = << >> THEN pure_in
                                            ELSE pure_out[Len(pure_out)].json))
    /\ lastOp' = "sanitize"
    /\ UNCHANGED << info, max_missed_packets, connVars, chgVars, batVars, lastFetch,
                    retBool, retInt, raised, concVars, pure_in >>

NextSanitize == Sanitize

SpecSanitize == InitSanitize /\ [][NextSanitize]_vars

(***************************************************************************)
(* Properties                                                              *)
(***************************************************************************)
\* the step is a connectivity read whose reading repeats the stored uptime
ConnStallRead ==
    /\ lastOp' = "conn_is_on"
    /\ "UPTIME" \in DOMAIN info
    /\ info["UPTIME"] # "Offline"
    /\ info["UPTIME"] = conn_old_uptime

\* C1 as stated: on every stalled reading the connectivity sensor reports true
\* exactly while the missed count it has reached is below max_missed, so the
\* stall that brings missed_count to max_missed (the 5th reading of
\* [Offline, 10, 10, 10, 10] with max_missed = 3) reports false.
C1_Original ==
    [][ConnStallRead =>
          (retBool' <=> conn_missed_packets' < max_missed_packets)]_vars

\* C1 amended: a stalled reading made while missed_count is below max_missed
\* increments missed_count by one and reports true (also when that brings it
\* to max_missed); a stalled reading made once missed_count has reached
\* max_missed leaves it alone and reports false.
C1_StallDebounce ==
    [][ConnStallRead =>
          IF conn_missed_packets < max_missed_packets
          THEN conn_missed_packets' = conn_missed_packets + 1 /\ retBool'
          ELSE conn_missed_packets' = conn_missed_packets /\ ~retBool']_vars

\* max_missed = 3 and the third stall in a row has just been read: reported true
C1_Witness ==
    /\ lastOp = "conn_is_on"
    /\ max_missed_packets = 3
    /\ info["UPTIME"] = "10"
    /\ conn_old_uptime = "10"
    /\ conn_missed_packets = 3
    /\ retBool

\* C2 as stated: in every reachable state, for every max_missed the schema
\* accepts, both trackers have 0 <= missed_count <= max_missed.
C2_MissedWithinBound ==
    /\ 0 <= conn_missed_packets /\ conn_missed_packets <= max_missed_packets
    /\ 0 <= chg_missed_packets /\ chg_missed_packets <= max_missed_packets

\* C3: after a connectivity read of an Offline uptime the sensor has reported
\* false and missed_count is 0.
C3_OfflineResets ==
    (lastOp = "conn_is_on" /\ "UPTIME" \in DOMAIN info /\ info["UPTIME"] = "Offline")
        => (~retBool /\ conn_missed_packets = 0 /\ raised = "none")

\* an Offline reading read by a tracker that had stored a live uptime
C3_Witness ==
    /\ lastOp = "conn_is_on"
    /\ info["UPTIME"] = "Offline"
    /\ conn_old_uptime = "10"
    /\ ~retBool
    /\ conn_missed_packets = 0

\* C4: a read of a non-Offline uptime that differs from the stored one reports
\* connected, resets missed_count and stores the reading, in both trackers.
C4_AdvanceConnects ==
    [][ /\ (/\ lastOp' = "conn_is_on"
            /\ "UPTIME" \in DOMAIN info
            /\ info["UPTIME"] # "Offline"
            /\ info["UPTIME"] # conn_old_uptime)
           => (/\ retBool'
               /\ conn_missed_packets' = 0
               /\ conn_old_uptime' = info["UPTIME"])
        /\ (/\ lastOp' = "chg_is_on"
            /\ "UPTIME" \in DOMAIN info
            /\ info["UPTIME"] # "Offline"
            /\ info["UPTIME"] # chg_old_uptime)
           => (/\ chg_connected'
               /\ chg_missed_packets' = 0
               /\ chg_old_uptime' = info["UPTIME"]) ]_vars

\* both trackers have read an uptime that moved on from an earlier live one
C4_Witness ==
    /\ lastOp \in {"conn_is_on", "chg_is_on"}
    /\ info["UPTIME"] = "11"
    /\ conn_old_uptime = "11" /\ conn_missed_packets = 0
    /\ chg_old_uptime = "11" /\ chg_missed_packets = 0 /\ chg_connected

\* C7 as stated, for a tracker that has exhausted its stall tolerance under a
\* non-negative max_missed: when the charging sensor decides the device is not
\* connected it reports not charging, and the current it publishes is 0 with
\* the charge speed Not Charging, whatever amperage the cache holds.
C7_DisconnectedReportsZero ==
    (/\ lastOp = "chg_is_on"
     /\ raised = "none"
     /\ ~chg_connected
     /\ max_missed_packets >= 0
     /\ info["UPTIME"] # "Offline")
        => (/\ ~retBool
            /\ current_current = 0
            /\ ChargingAttrChargeSpeed = "Not Charging"
            /\ ChargingAttrCurrentAmps = 0)

\* the cache holds the sentinel -1 as the battery-override percentage
LiveUnknown == int(info["OVERRIDDEN_SOC"]).ok /\ int(info["OVERRIDDEN_SOC"]).val = -1

\* C5: every value OwieBatterySensor.state returns is the value it holds from
\* then on, and neither is the sentinel -1 or any negative number: once a read
\* has happened the sensor never shows unknown again.
C5_NeverUnknownAfterRead ==
    /\ (lastOp = "bat_state" /\ raised = "none") => (retInt >= 0 /\ bat_state = retInt)
    /\ bat_state < 0 => (bat_state = -1 /\ lastOp # "bat_state")

\* a value was restored, and a read made while a polled payload carries the
\* sentinel has returned it
C5_Witness ==
    /\ lastOp = "bat_state"
    /\ lastFetch.kind = "Response"
    /\ LiveUnknown
    /\ retInt = 42
    /\ bat_last_state = None

\* the step is a read of the battery state that parses the cached percentage
BatteryRead == lastOp' = "bat_state" /\ int(info["OVERRIDDEN_SOC"]).ok

\* C6: (a) a read with a pending restored value r and nothing held yet returns
\* r and discards the pending value; (b) a read with no pending value and a
\* concrete live value v returns v; (c) a read with no pending value, a value
\* held and the device reporting the sentinel returns the held value, which is
\* the last live value; (d) once discarded, the pending value never comes back.
C6_RestoreThenLive ==
    [][ /\ (BatteryRead /\ bat_last_state # None /\ bat_state = -1)
           => (retInt' = bat_last_state[1] /\ bat_last_state' = None)
        /\ (BatteryRead /\ bat_last_state = None /\ ~LiveUnknown)
           => (retInt' = int(info["OVERRIDDEN_SOC"]).val /\ bat_state' = retInt')
        /\ (BatteryRead /\ bat_last_state = None /\ LiveUnknown /\ bat_state # -1)
           => (retInt' = bat_state /\ bat_state' = bat_state)
        /\ (attached /\ bat_last_state = None) => bat_last_state' = None ]_vars

\* the live value 67 is returned while the device reports the sentinel again
C6_Witness ==
    /\ lastOp = "bat_state"
    /\ lastFetch.kind = "Response"
    /\ LiveUnknown
    /\ retInt = 67
    /\ bat_state = 67
    /\ bat_last_state = None

\* C8: an update whose fetch is Unreachable leaves the cache as it was and
\* lets nothing escape.
C8_UnreachableKeepsCache ==
    [][(lastOp' = "update" /\ lastFetch'.kind = "Unreachable")
          => (info' = info /\ raised' = "none")]_vars

\* an Unreachable poll made after the cache had been replaced by a payload
C8_Witness ==
    /\ lastOp = "update"
    /\ lastFetch.kind = "Unreachable"
    /\ "UPTIME" \in DOMAIN info
    /\ info["UPTIME"] = "11"
    /\ "CELL_VOLTAGE_TABLE" \in DOMAIN info

\* C9 as stated: an update that receives any non-success status from a
\* reachable device, whatever the body, leaves the cache as it was.
C9_ServerErrorKeepsCache ==
    [][(lastOp' = "update" /\ lastFetch'.kind = "Response" /\ lastFetch'.status # 200)
          => info' = info]_vars

\* C10 as stated: update returns normally for every fetch result.
C10_UpdateNeverRaises ==
    lastOp = "update" => raised = "none"

(***************************************************************************)
(* The cache across polls                                                  *)
(***************************************************************************)
\* the fetch delivered a JSON body under a status update() does not log
JsonDelivered(fetch) ==
    fetch.kind = "Response" /\ fetch.status # codes_bad /\ fetch.isJson

\* a property the sanitizer strips is absent from the body
MissingSanitizedField(body) ==
    \E i \in 1..Len(_san_properties) : _san_properties[i] \notin DOMAIN body

\* every stripped property is there and carries no unit suffix any more
FullySanitized(json) ==
    \A i \in 1..Len(_san_properties) :
        /\ _san_properties[i] \in DOMAIN json
        /\ SanitizeValue(json[_san_properties[i]]) = json[_san_properties[i]]

\* C11: a poll whose JSON body lacks a property the sanitizer strips leaves
\* the cache exactly as it was, and whatever a poll leaves in the cache has
\* all six stripped properties, each fully sanitized.
C11_MissingFieldKeepsCache ==
    [][lastOp' = "update" =>
          /\ (JsonDelivered(lastFetch') /\ MissingSanitizedField(lastFetch'.body))
                 => info' = info
          /\ FullySanitized(info')]_vars

C11_Witness ==
    /\ lastOp = "update"
    /\ JsonDelivered(lastFetch) /\ lastFetch.status = 200
    /\ MissingSanitizedField(lastFetch.body)
    /\ raised = "KeyError"
    /\ "CELL_VOLTAGE_TABLE" \notin DOMAIN info

\* the scalar fields the sensors read from the cache
ScalarFields ==
    { "TOTAL_VOLTAGE", "CURRENT_AMPS", "BMS_SOC", "OVERRIDDEN_SOC",
      "USED_CHARGE_MAH", "REGENERATED_CHARGE_MAH", "UPTIME" }

\* C12: in every reachable state the cache holds a value for every scalar
\* field the sensors read.
C12_ScalarFieldsPresent == ScalarFields \subseteq DOMAIN info

\* C13: after a poll that delivers a sanitizable JSON body with status 200
\* the cache has exactly the fields of that body, the stripped ones in
\* sanitized form and the uptime as delivered; nothing of the previous cache
\* is left.
C13_PollReplacesCache ==
    [][(/\ lastOp' = "update"
        /\ JsonDelivered(lastFetch') /\ lastFetch'.status = 200
        /\ sanitize_response(lastFetch'.body).exc = "none")
       => /\ DOMAIN info' = DOMAIN lastFetch'.body
          /\ \A i \in 1..Len(_san_properties) :
                info'[_san_properties[i]]
                    = SanitizeValue(lastFetch'.body[_san_properties[i]])
          /\ "UPTIME" \in DOMAIN lastFetch'.body
                => info'["UPTIME"] = lastFetch'.body["UPTIME"]
          /\ info' = sanitize_response(lastFetch'.body).json]_vars

\* the default cell and temperature mappings are gone after a poll whose
\* body has no tables
C13_Witness ==
    /\ lastOp = "update"
    /\ JsonDelivered(lastFetch) /\ lastFetch.status = 200
    /\ raised = "none"
    /\ "CELL_VOLTAGE_TABLE" \notin DOMAIN lastFetch.body
    /\ "CELL_VOLTAGE_TABLE" \notin DOMAIN info
    /\ "TEMPERATURE_TABLE" \notin DOMAIN info

(***************************************************************************)
(* Charger classification                                                  *)
(***************************************************************************)
\* the icon that goes with each charge-speed label
IconOfSpeed(speed) ==
    CASE speed = "Not Charging"         -> "mdi:power-plug-off-outline"
      [] speed = "Balance Charging"     -> "mdi:scale-balance"
      [] speed = "Pint Charger"         -> "mdi:speedometer-slow"
      [] speed = "XR|Pint Ultracharger" -> "mdi:speedometer-medium"
      [] speed = "XR Hypercharger"      -> "mdi:speedometer"
      [] speed = "Unknown Charger"      -> "mdi:flash-alert-outline"

\* C16: charge_speed gives every amperage exactly one label; at or above 0 it
\* is Not Charging, below -6 it is Unknown Charger, each band is open at its
\* less negative end and closed at its more negative one (so -1, -2, -4 and
\* -6 are Pint Charger, XR|Pint Ultracharger, XR Hypercharger and Unknown
\* Charger), and charge_speed_icon gives the icon of that same band.
C16_ChargeSpeedBands ==
    pure_out # << >> =>
        LET a == pure_in
            speed == pure_out.speed
        IN  /\ (a >= 0) <=> (speed = "Not Charging")
            /\ (a < 0 /\ a > -10) <=> (speed = "Balance Charging")
            /\ (a <= -10 /\ a > -20) <=> (speed = "Pint Charger")
            /\ (a <= -20 /\ a > -40) <=> (speed = "XR|Pint Ultracharger")
            /\ (a <= -40 /\ a > -60) <=> (speed = "XR Hypercharger")
            /\ (a <= -60) <=> (speed = "Unknown Charger")
            /\ pure_out.icon = IconOfSpeed(speed)

C16_Witness ==
    /\ lastOp = "classify"
    /\ pure_in = -10
    /\ pure_out.speed = "Pint Charger"
    /\ pure_out.icon = "mdi:speedometer-slow"

(***************************************************************************)
(* The sanitizer applied to its own result                                 *)
(***************************************************************************)
\* C17: sanitizing an already sanitized payload completes and returns it
\* unchanged, whether or not the payload has the two tables.
C17_SanitizeIdempotent ==
    Len(pure_out) >= 2 =>
        /\ pure_out[2].exc = "none"
        /\ pure_out[2].json = pure_out[1].json

(***************************************************************************)
(* The two uptime trackers side by side                                    *)
(***************************************************************************)
\* C18: read once each per uptime reading, with the same max_missed_packets,
\* the charging sensor's tracker and the connectivity sensor's tracker hold
\* the same previous uptime and the same missed count after every step, and
\* the charging sensor's _connected equals what the connectivity sensor
\* reported.
C18_TrackersAgree ==
    /\ chg_old_uptime = conn_old_uptime
    /\ chg_missed_packets = conn_missed_packets
    /\ chg_connected = retBool

\* both have used up the tolerated stalled reads and both say disconnected
C18_Witness ==
    /\ lastOp = "read_both"
    /\ raised = "none"
    /\ max_missed_packets = 2
    /\ info["UPTIME"] = "10"
    /\ conn_old_uptime = "10" /\ chg_old_uptime = "10"
    /\ conn_missed_packets = 2 /\ chg_missed_packets = 2
    /\ ~retBool /\ ~chg_connected

(***************************************************************************)
(* Restore against a live value                                            *)
(***************************************************************************)
\* the percentage the cache holds, as state() parses it
LiveValue == int(info["OVERRIDDEN_SOC"]).val

\* C20: a pending restored value r is only ever held by a sensor that has not
\* been read yet; the read made with r pending and a concrete live value
\* v # r in the cache returns r, not v, and clears the pending value; every
\* read with nothing pending and a concrete live value returns the live
\* value, so v comes from the following read on.
C20_RestoreBeforeLive ==
    [][ /\ bat_last_state # None => bat_state = -1
        /\ (/\ BatteryRead /\ ~LiveUnknown
            /\ bat_last_state # None
            /\ LiveValue # bat_last_state[1])
           => /\ retInt' = bat_last_state[1]
              /\ retInt' # LiveValue
              /\ bat_state' = retInt'
              /\ bat_last_state' = None
        /\ (BatteryRead /\ ~LiveUnknown /\ bat_last_state = None)
           => retInt' = LiveValue ]_vars

\* the restored 42 has just been returned although the cache holds the live 67
C20_Witness ==
    /\ lastOp = "bat_state"
    /\ lastFetch.kind = "Response"
    /\ ~LiveUnknown /\ LiveValue = 67
    /\ retInt = 42
    /\ bat_state = 42
    /\ bat_last_state = None

(***************************************************************************)
(* A device that stops answering                                           *)
(***************************************************************************)
\* the cache carries an uptime a poll delivered and the last poll found the
\* device unreachable
OutageAfterContact ==
    /\ lastFetch.kind = "Unreachable"
    /\ info["UPTIME"] # "Offline"

\* the connectivity sensor has read the cached uptime and its last report
\* is disconnected
ReportsDisconnected ==
    /\ conn_old_uptime = info["UPTIME"]
    /\ ~retBool

\* C19: once a poll has delivered a non-offline uptime and every poll from
\* some point on finds the device unreachable, the connectivity sensor, read
\* again and again, comes to report disconnected and reports nothing else
\* from then on.
C19_OutageLeadsToDisconnected ==
    <>[]OutageAfterContact => <>[]ReportsDisconnected

\* the tolerated stalled reads are used up during an outage and the read
\* just made reported disconnected
C19_Witness ==
    /\ lastOp = "conn_is_on"
    /\ OutageAfterContact
    /\ max_missed_packets = 3
    /\ conn_missed_packets = 3
    /\ ReportsDisconnected

(***************************************************************************)
(* Reads next to updates in the executor                                   *)
(***************************************************************************)
\* a cache as a whole: the construction defaults, or the fully sanitized
\* form of one payload a poll delivered
CompleteCaches ==
    {InitialInfo} \cup
    { sanitize_response(f.body).json :
        f \in { g \in ConcFetches : /\ JsonDelivered(g)
                                    /\ sanitize_response(g.body).exc = "none" } }

CompleteCache(c) == c \in CompleteCaches

C15_OneUpdateAtATime ==
    Cardinality({ e \in Entities : jobs[e].pc # "idle" }) <= 1

=============================================================================
